---- MODULE Spec2Model ----
(***************************************************************************)
(* Consumer-side job processing of the article pipeline:                   *)
(* consumer/main.py (consume_tasks, process_task, store_article,           *)
(* send_discord_webhook, signal_handler) and publisher/main.py             *)
(* (publish_tasks).  One worker, the Redis work list, the Redis            *)
(* dead-letter list and the MongoDB articles collection (Spec); several    *)
(* workers on the same lists (PoolSpec); the extractors of                 *)
(* consumer/scraper.py (TitleSpec).                                        *)
(***************************************************************************)
EXTENDS Integers, Sequences, FiniteSets, TLC

(***************************************************************************)
(* Bounds of the model.                                                    *)
(***************************************************************************)
MaxRetriesBound == 3      \* settings.max_retries ranges over 1..MaxRetriesBound
BackoffBases == {3}       \* value of settings.retry_backoff_base
MaxPublished == 1         \* payloads publish_tasks pushes while the worker runs
MaxPoolJobs == 2          \* payloads enqueued for the pool of workers
MaxTextLen == 2           \* characters of a text of the document

(***************************************************************************)
(* Values.                                                                 *)
(***************************************************************************)
None == "None"

Ids == {"a1", "a2"}
Urls == {"http://x.test/", "http://y.test/"}

\* ArticleTask: the fields the protocol reads (id, url); source, category and
\* priority are carried through unchanged and never decide anything.
ArticleTask ==
    { [id |-> "a1", url |-> "http://x.test/"],
      [id |-> "a2", url |-> "http://x.test/"],
      [id |-> "a2", url |-> "http://y.test/"] }

\* A serialized payload in the work list.  kind "task" is a JSON object that
\* validates as an ArticleTask; form tells the byte layouts apart: "dumped" is
\* what model_dump_json produces, "spaced" is the same object written with
\* other whitespace / key order.  "badjson" is not JSON, "badshape" is JSON
\* that fails ArticleTask validation.
TaskPayloads ==
    { [kind |-> "task", id |-> t.id, url |-> t.url, form |-> "dumped"] : t \in ArticleTask }
    \cup { [kind |-> "task", id |-> "a1", url |-> "http://x.test/", form |-> "spaced"] }
BadPayloads ==
    { [kind |-> "badjson", id |-> None, url |-> None, form |-> "spaced"],
      [kind |-> "badshape", id |-> "a1", url |-> None, form |-> "dumped"] }
Payloads == TaskPayloads \cup BadPayloads

\* article.model_dump_json()
ModelDumpJson(task) ==
    [kind |-> "task", id |-> task.id, url |-> task.url, form |-> "dumped"]

\* json.loads(task_data): raises on text that is not JSON
JsonLoadsRaises(data) == data.kind = "badjson"

\* ArticleTask(**task_dict): raises on a structure that fails validation
ValidationRaises(data) == data.kind = "badshape"

\* the ArticleTask parsed from a well-formed payload (the byte layout is lost)
ParseTask(data) == [id |-> data.id, url |-> data.url]

NoTask == [id |-> None, url |-> None]
NoPayload == [kind |-> None, id |-> None, url |-> None, form |-> None]

\* what scraper.scrape raises (HTTPStatusError, RequestError, a parse error:
\* process_task treats them alike); str(exception) is what last_error keeps
ScrapeErrors == {"RequestError"}
\* exception of collection.replace_one other than DuplicateKeyError
StoreErrorMsg == "PyMongoError"
\* the ScrapedContent of a successful scrape (its title)
Titles == {"Untitled"}

NoDoc == [url |-> None, status |-> None, attempts |-> 0,
          error_message |-> None, title |-> None]

VARIABLES
    max_retries,          \* settings.max_retries
    retry_backoff_base,   \* settings.retry_backoff_base
    queue,                \* Redis list settings.queue_name, head first
    dlq,                  \* Redis list settings.dlq_name, head first
    db,                   \* articles collection: _id -> document (NoDoc = absent)
    shutdown_flag,        \* global shutdown_flag
    published,            \* publish_tasks' published_count
    pc,                   \* position of the worker in consume_tasks/process_task
    task_data,            \* the payload popped by brpop
    article_task,         \* the parsed ArticleTask
    attempt,              \* process_task's attempt
    last_error,           \* process_task's last_error
    scraped_content,      \* result of scraper.scrape in the current attempt
    trace,                \* calls made for the current delivery, in order
    outcome,              \* how process_task ended for the current delivery
    pool_queue,           \* several workers: the work list, head first
    pool_dlq,             \* several workers: the dead-letter list, head first
    pool_published,       \* several workers: publish_tasks' published_count
    pool_pc,              \* worker -> its position in consume_tasks/process_task
    pool_job,             \* worker -> the job it popped
    pool_attempt,         \* worker -> process_task's attempt
    pool_flag,            \* worker -> its process's shutdown_flag
    popped,               \* the pops made, in order: who popped which job
    effects,              \* job -> the calls made for it, by all workers
    soup,                 \* the parsed HTML document given to an extractor
    title,                \* what _extract_title returned for soup
    meta_description,     \* what _extract_meta_description returned for soup
    author,               \* what _extract_author returned for soup
    published_date        \* what _extract_published_date returned for soup

vars == <<max_retries, retry_backoff_base, queue, dlq, db, shutdown_flag,
          published, pc, task_data, article_task, attempt, last_error,
          scraped_content, trace, outcome, pool_queue, pool_dlq,
          pool_published, pool_pc, pool_job, pool_attempt, pool_flag, popped,
          effects, soup, title, meta_description, author, published_date>>

settings == <<max_retries, retry_backoff_base>>
locals == <<task_data, article_task, attempt, last_error, scraped_content>>
\* the state of the model of several workers on one work list
pool == <<pool_queue, pool_dlq, pool_published, pool_pc, pool_job,
          pool_attempt, pool_flag, popped, effects>>
\* the state of the model of the extractors
page == <<soup, title, meta_description, author, published_date>>


(***************************************************************************)
(* Helpers.                                                                *)
(***************************************************************************)
RECURSIVE Pow2(_)
Pow2(n) == IF n <= 0 THEN 1 ELSE 2 * Pow2(n - 1)

\* one call made by process_task: op is the callee, status and n its
\* status/attempts (or seconds) arguments, result what the call did
Ev(op, status, n, result) == [op |-> op, status |-> status, n |-> n, result |-> result]

\* mutant: the new element is added at the tail (RPUSH)
LpushAtTail(list, data) == list \o <<data>>

\* LPUSH: the new element becomes the head of the list
Lpush(list, data) == <<data>> \o list
\* mutant: the element read stays in the list (a read without removal)
BrpopRestKeeps(list) == list

\* BRPOP: the element taken is the tail of the list
BrpopValue(list) == list[Len(list)]
BrpopRest(list) == SubSeq(list, 1, Len(list) - 1)

\* the work list at start-up: empty, or one payload left by a producer
InitialQueues == {<<>>} \cup { <<data>> : data \in Payloads }

(***************************************************************************)
(* store_article                                                           *)
(***************************************************************************)
\* document_data -> ArticleDocument -> model_dump(by_alias, exclude_none)
ArticleDoc(task, content, status, attempts, error_message) ==
    [url |-> task.url,
     status |-> status,
     attempts |-> attempts,
     error_message |-> error_message,
     title |-> content]

\* the unique index on url rejects a document whose url another _id holds
DuplicateKey(task) ==
    \E j \in Ids \ {task.id} : db[j] # NoDoc /\ db[j].url = task.url

\* mutant: the fields of the new document are set on the stored one (an
\* update with $set and upsert), the fields it lacks stay as they were
UpdateOneSet(task, doc) ==
    [db EXCEPT ![task.id] =
        [doc EXCEPT
           !.error_message = IF doc.error_message # None
                               THEN doc.error_message ELSE db[task.id].error_message,
           !.title = IF doc.title # None THEN doc.title ELSE db[task.id].title]]

\* collection.replace_one({"_id": id}, doc, upsert=True)
ReplaceOne(task, doc) == [db EXCEPT ![task.id] = doc]

\* what one call of store_article does when replace_one does not fail for
\* another reason: "duplicate" (DuplicateKeyError caught, nothing written) or
\* "written"
StoreResult(task) == IF DuplicateKey(task) THEN "duplicate" ELSE "written"

\* mutant: the document is written although another _id holds its url
StoreDbOverwrites(task, doc) == ReplaceOne(task, doc)

StoreDb(task, doc) ==
    IF StoreResult(task) = "written" THEN ReplaceOne(task, doc) ELSE db

(***************************************************************************)
(* process_task: retry policy                                              *)
(***************************************************************************)
\* mutant: the loop stops one attempt early
WhileCondStrict(a) == a < max_retries

\* while attempt <= settings.max_retries
WhileCond(a) == a <= max_retries

\* if attempt < settings.max_retries (a backoff sleep follows)
SleepCond(a) == a < max_retries

\* mutant: the exponent is the attempt, not the attempt minus one
BackoffTimeNextPower(a) == retry_backoff_base * Pow2(a)

\* backoff_time = settings.retry_backoff_base * (2 ** (attempt - 1))
BackoffTime(a) == retry_backoff_base * Pow2(a - 1)

\* mutant: the exception of the try block leaves process_task
RetryExceptReraise(events, err) ==
    /\ last_error' = err
    /\ trace' = trace \o events
    /\ attempt' = attempt
    /\ pc' = "except"
    /\ scraped_content' = None

\* mutant: the retry sequence tests the shutdown flag and gives the job up
RetryExceptStopsOnShutdown(events, err) ==
    /\ last_error' = err
    /\ trace' = trace \o events \o
                  (IF SleepCond(attempt) /\ ~shutdown_flag
                     THEN <<Ev("sleep", "-", BackoffTime(attempt), "-")>>
                     ELSE <<>>)
    /\ attempt' = attempt + 1
    /\ pc' = IF shutdown_flag THEN "loop"
             ELSE IF WhileCond(attempt + 1) THEN "scrape" ELSE "store_failed"
    /\ scraped_content' = None

\* except Exception as exception: last_error, optional sleep, attempt += 1,
\* then the while test.  events are the calls of the try block.
RetryExcept(events, err) ==
    /\ last_error' = err
    /\ trace' = trace \o events \o
                  (IF SleepCond(attempt)
                     THEN <<Ev("sleep", "-", BackoffTime(attempt), "-")>>
                     ELSE <<>>)
    /\ attempt' = attempt + 1
    /\ pc' = IF WhileCond(attempt + 1) THEN "scrape" ELSE "store_failed"
    /\ scraped_content' = None

(***************************************************************************)
(* Several workers on one work list: every worker is a process running     *)
(* consume_tasks on the same Redis lists.  A job is an enqueued payload;   *)
(* seq tells the enqueued payloads apart, the workers never read it.       *)
(***************************************************************************)
Workers == {"w1", "w2"}

\* payloads the publisher and other producers enqueue
PoolPayloads ==
    { [kind |-> "task", id |-> "a1", url |-> "http://x.test/", form |-> "dumped"],
      [kind |-> "badjson", id |-> None, url |-> None, form |-> "spaced"] }

NoJob == [seq |-> 0, data |-> NoPayload]

\* the calls made for one job: the workers that called store_article for it,
\* the webhooks sent, the dead-letter pushes made
NoEffects == [store |-> {}, webhook |-> 0, lpush |-> 0]

PoolIdle ==
    /\ pool_queue = <<>>
    /\ pool_dlq = <<>>
    /\ pool_published = 0
    /\ pool_pc = [w \in Workers |-> "loop"]
    /\ pool_job = [w \in Workers |-> NoJob]
    /\ pool_attempt = [w \in Workers |-> 0]
    /\ pool_flag = [w \in Workers |-> FALSE]
    /\ popped = <<>>
    /\ effects = [n \in 1..MaxPoolJobs |-> NoEffects]

(***************************************************************************)
(* The parsed document an extractor reads.  A text is a sequence of        *)
(* characters.  A meta element is absent, or present with or without a     *)
(* content attribute; h1 and title are absent or present with their text.  *)
(***************************************************************************)
NoMeta == [present |-> FALSE, has_content |-> FALSE, content |-> <<>>]
NoTag == [present |-> FALSE, text |-> <<>>]
\* no time element with a datetime attribute
NoTime == [present |-> FALSE, datetime |-> <<>>, has_content |-> FALSE,
           content |-> <<>>]
EmptySoup == [og_title |-> NoMeta, twitter_title |-> NoMeta,
              h1 |-> NoTag, title_tag |-> NoTag,
              meta_desc |-> NoMeta, og_desc |-> NoMeta,
              meta_author |-> NoMeta, article_author |-> NoMeta,
              author_tag |-> NoTag,
              published_time |-> NoMeta, time_tag |-> NoTime,
              date_tag |-> NoTag]
NotExtracted == [returned |-> FALSE, value |-> <<>>]

PageIdle ==
    /\ soup = EmptySoup
    /\ title = NotExtracted
    /\ meta_description = NotExtracted
    /\ author = NotExtracted
    /\ published_date = NotExtracted

(***************************************************************************)
(* Initial state: the worker at the top of its loop, an empty collection,  *)
(* an empty dead-letter list, whatever is already in the work list.        *)
(***************************************************************************)
Init ==
    /\ max_retries \in 1..MaxRetriesBound
    /\ retry_backoff_base \in BackoffBases
    /\ queue \in InitialQueues
    /\ dlq = <<>>
    /\ db = [i \in Ids |-> NoDoc]
    /\ shutdown_flag = FALSE
    /\ published = 0
    /\ pc = "loop"
    /\ task_data = NoPayload
    /\ article_task = NoTask
    /\ attempt = 0
    /\ last_error = None
    /\ scraped_content = None
    /\ trace = <<>>
    /\ outcome = "none"
    /\ PoolIdle
    /\ PageIdle

(***************************************************************************)
(* Environment: the publisher and the shutdown signal.                     *)
(***************************************************************************)
\* publish_tasks: client.lpush(settings.queue_name, article.model_dump_json())
Publish ==
    /\ published < MaxPublished
    /\ \E article \in ArticleTask :
          queue' = Lpush(queue, ModelDumpJson(article))
    /\ published' = published + 1
    /\ UNCHANGED <<settings, pool, page, dlq, db, shutdown_flag, pc, locals,
                   trace, outcome>>

\* signal_handler
SignalHandler ==
    /\ ~shutdown_flag
    /\ shutdown_flag' = TRUE
    /\ UNCHANGED <<settings, pool, page, queue, dlq, db, published, pc,
                   locals, trace, outcome>>

(***************************************************************************)
(* consume_tasks                                                           *)
(***************************************************************************)
\* while not shutdown_flag: false -> close the connections and return
LoopExit ==
    /\ pc = "loop"
    /\ shutdown_flag
    /\ pc' = "closed"
    /\ UNCHANGED <<settings, pool, page, queue, dlq, db, shutdown_flag,
                   published, locals, trace, outcome>>

\* brpop timed out: result is None, continue
BrpopTimeout ==
    /\ pc = "loop"
    /\ ~shutdown_flag
    /\ queue = <<>>
    /\ UNCHANGED vars

\* mutant: the pop is made without the while test
BrpopIgnoresFlag ==
    /\ pc = "loop"
    /\ queue # <<>>
    /\ task_data' = BrpopValue(queue)
    /\ queue' = BrpopRest(queue)
    /\ pc' = "parse"
    /\ article_task' = NoTask
    /\ attempt' = 0
    /\ last_error' = None
    /\ scraped_content' = None
    /\ trace' = <<>>
    /\ outcome' = "none"
    /\ UNCHANGED <<settings, pool, page, dlq, db, shutdown_flag, published>>

\* brpop returned a payload; process_task is entered with it
Brpop ==
    /\ pc = "loop"
    /\ ~shutdown_flag
    /\ queue # <<>>
    /\ task_data' = BrpopValue(queue)
    /\ queue' = BrpopRest(queue)
    /\ pc' = "parse"
    /\ article_task' = NoTask
    /\ attempt' = 0
    /\ last_error' = None
    /\ scraped_content' = None
    /\ trace' = <<>>
    /\ outcome' = "none"
    /\ UNCHANGED <<settings, pool, page, dlq, db, shutdown_flag, published>>

\* mutant: the error of brpop is not caught and ends consume_tasks
BrpopRaisesEscapes ==
    /\ pc = "loop"
    /\ ~shutdown_flag
    /\ pc' = "closed"
    /\ UNCHANGED <<settings, pool, page, queue, dlq, db, shutdown_flag,
                   published, locals, trace, outcome>>

\* brpop raised (connection error): caught by except Exception
BrpopRaises ==
    /\ pc = "loop"
    /\ ~shutdown_flag
    /\ pc' = "except"
    /\ UNCHANGED <<settings, pool, page, queue, dlq, db, shutdown_flag,
                   published, locals, trace, outcome>>

\* mutant: the handler leaves the loop (a break)
LoopExceptBreaks ==
    /\ pc = "except"
    /\ pc' = "closed"
    /\ UNCHANGED <<settings, pool, page, queue, dlq, db, shutdown_flag,
                   published, locals, trace, outcome>>

\* except Exception: log, time.sleep(1), back to the while test
LoopExcept ==
    /\ pc = "except"
    /\ pc' = "loop"
    /\ UNCHANGED <<settings, pool, page, queue, dlq, db, shutdown_flag,
                   published, locals, trace, outcome>>

(***************************************************************************)
(* process_task                                                            *)
(***************************************************************************)
\* task_dict = json.loads(task_data); article_task = ArticleTask(**task_dict);
\* attempt = 1; last_error = None
Parse ==
    /\ pc = "parse"
    /\ IF JsonLoadsRaises(task_data) \/ ValidationRaises(task_data)
         THEN /\ pc' = "except"
              /\ outcome' = "Raised"
              /\ UNCHANGED <<article_task, attempt>>
         ELSE /\ article_task' = ParseTask(task_data)
              /\ attempt' = 1
              /\ pc' = IF WhileCond(1) THEN "scrape" ELSE "store_failed"
              /\ UNCHANGED outcome
    /\ UNCHANGED <<settings, pool, page, queue, dlq, db, shutdown_flag,
                   published, task_data, last_error, scraped_content, trace>>

\* scraped_content = scraper.scrape(...): returns, or raises into the except
Scrape ==
    /\ pc = "scrape"
    /\ \/ \E content \in Titles :
            /\ scraped_content' = content
            /\ trace' = Append(trace, Ev("scrape", "-", attempt, "ok"))
            /\ pc' = "store_success"
            /\ UNCHANGED <<attempt, last_error>>
       \/ \E err \in ScrapeErrors :
            RetryExcept(<<Ev("scrape", "-", attempt, err)>>, err)
    /\ UNCHANGED <<settings, pool, page, queue, dlq, db, shutdown_flag,
                   published, task_data, article_task, outcome>>

\* mutant: the success record counts the failed attempts only
SuccessAttemptsPrevious == attempt - 1

\* attempts=attempt of the success record and the success webhook
SuccessAttempts == attempt

\* mutant: the DuplicateKeyError leaves store_article and fails the attempt
StoreSuccessConflictRaises ==
    /\ pc = "store_success"
    /\ \/ /\ StoreResult(article_task) = "written"
          /\ db' = ReplaceOne(article_task,
                      ArticleDoc(article_task, scraped_content, "success",
                                 SuccessAttempts, None))
          /\ trace' = Append(trace, Ev("store", "success", SuccessAttempts, "written"))
          /\ pc' = "notify_success"
          /\ UNCHANGED <<attempt, last_error, scraped_content>>
       \/ /\ RetryExcept(<<Ev("store", "success", SuccessAttempts,
                              IF StoreResult(article_task) = "duplicate"
                                THEN "duplicate" ELSE "error")>>,
                        StoreErrorMsg)
          /\ UNCHANGED db
    /\ UNCHANGED <<settings, pool, page, queue, dlq, shutdown_flag, published,
                   task_data, article_task, outcome>>

\* store_article(status="success", attempts=attempt): writes, swallows a
\* DuplicateKeyError, or re-raises another error into process_task's except
StoreSuccess ==
    /\ pc = "store_success"
    /\ \/ /\ db' = StoreDb(article_task,
                      ArticleDoc(article_task, scraped_content, "success",
                                 SuccessAttempts, None))
          /\ trace' = Append(trace,
                        Ev("store", "success", SuccessAttempts, StoreResult(article_task)))
          /\ pc' = "notify_success"
          /\ UNCHANGED <<attempt, last_error, scraped_content>>
       \/ /\ RetryExcept(<<Ev("store", "success", SuccessAttempts, "error")>>,
                        StoreErrorMsg)
          /\ UNCHANGED db
    /\ UNCHANGED <<settings, pool, page, queue, dlq, shutdown_flag, published,
                   task_data, article_task, outcome>>

\* mutant: process_task returns without the success webhook
NotifySuccessSkipped ==
    /\ pc = "notify_success"
    /\ outcome' = "Success"
    /\ pc' = "loop"
    /\ UNCHANGED <<settings, pool, page, queue, dlq, db, shutdown_flag,
                   published, locals, trace>>

\* mutant: a success webhook that is not delivered raises inside the try
\* block and fails the attempt
NotifySuccessRaises ==
    /\ pc = "notify_success"
    /\ \/ /\ trace' = Append(trace, Ev("webhook", "success", SuccessAttempts, "sent"))
          /\ outcome' = "Success"
          /\ pc' = "loop"
          /\ UNCHANGED locals
       \/ /\ RetryExcept(<<Ev("webhook", "success", SuccessAttempts, "failed")>>,
                        "WebhookError")
          /\ UNCHANGED <<task_data, article_task, outcome>>
    /\ UNCHANGED <<settings, pool, page, queue, dlq, db, shutdown_flag,
                   published>>

\* send_discord_webhook(success=True): delivered or not, it never raises;
\* then process_task returns
NotifySuccess ==
    /\ pc = "notify_success"
    /\ \E sent \in {"sent", "failed"} :
          trace' = Append(trace, Ev("webhook", "success", SuccessAttempts, sent))
    /\ outcome' = "Success"
    /\ pc' = "loop"
    /\ UNCHANGED <<settings, pool, page, queue, dlq, db, shutdown_flag,
                   published, locals>>

\* mutant: the loop variable is used as it stands after the loop
FailedAttemptsOffByOne == attempt

\* attempts=attempt - 1 of the failed record and the failure webhook
FailedAttempts == attempt - 1

\* mutant: the failed record loses the error
FailedErrorMessageDropped == None

\* error_message=last_error of the failed record
FailedErrorMessage == last_error

\* mutant: the error of the failed record's store is swallowed and the
\* notification and the push follow
StoreFailedSwallows ==
    /\ pc = "store_failed"
    /\ \/ /\ db' = StoreDb(article_task,
                      ArticleDoc(article_task, None, "failed", FailedAttempts,
                                 FailedErrorMessage))
          /\ trace' = Append(trace,
                        Ev("store", "failed", FailedAttempts, StoreResult(article_task)))
       \/ /\ trace' = Append(trace, Ev("store", "failed", FailedAttempts, "error"))
          /\ UNCHANGED db
    /\ pc' = "notify_failure"
    /\ UNCHANGED <<settings, pool, page, queue, dlq, shutdown_flag, published,
                   locals, outcome>>

\* store_article(status="failed", attempts=attempt - 1, error_message=last_error):
\* an error other than DuplicateKeyError leaves process_task
StoreFailed ==
    /\ pc = "store_failed"
    /\ \/ /\ db' = StoreDb(article_task,
                      ArticleDoc(article_task, None, "failed", FailedAttempts,
                                 FailedErrorMessage))
          /\ trace' = Append(trace,
                        Ev("store", "failed", FailedAttempts, StoreResult(article_task)))
          /\ pc' = "notify_failure"
          /\ UNCHANGED outcome
       \/ /\ trace' = Append(trace, Ev("store", "failed", FailedAttempts, "error"))
          /\ pc' = "except"
          /\ outcome' = "Raised"
          /\ UNCHANGED db
    /\ UNCHANGED <<settings, pool, page, queue, dlq, shutdown_flag, published,
                   locals>>

\* mutant: a webhook that is not delivered raises out of send_discord_webhook
\* and of process_task
NotifyFailureRaises ==
    /\ pc = "notify_failure"
    /\ \/ /\ trace' = Append(trace, Ev("webhook", "failure", FailedAttempts, "sent"))
          /\ pc' = "lpush_dlq"
          /\ UNCHANGED outcome
       \/ /\ trace' = Append(trace, Ev("webhook", "failure", FailedAttempts, "failed"))
          /\ pc' = "except"
          /\ outcome' = "Raised"
    /\ UNCHANGED <<settings, pool, page, queue, dlq, db, shutdown_flag,
                   published, locals>>

\* send_discord_webhook(success=False, attempts=attempt - 1)
NotifyFailure ==
    /\ pc = "notify_failure"
    /\ \E sent \in {"sent", "failed"} :
          trace' = Append(trace, Ev("webhook", "failure", FailedAttempts, sent))
    /\ pc' = "lpush_dlq"
    /\ UNCHANGED <<settings, pool, page, queue, dlq, db, shutdown_flag,
                   published, locals, outcome>>

\* mutant: the parsed task is serialized again
DlqPayloadReserialized == ModelDumpJson(article_task)

\* the payload process_task pushes to the dead-letter list
DlqPayload == task_data

\* mutant: a failed dead-letter push is tried again
LpushDlqRetries ==
    /\ pc = "lpush_dlq"
    /\ \/ /\ dlq' = Lpush(dlq, DlqPayload)
          /\ trace' = Append(trace, Ev("lpush", "-", 0, "ok"))
          /\ outcome' = "Exhausted"
          /\ pc' = "loop"
       \/ /\ trace[Len(trace)].op # "lpush"
          /\ trace' = Append(trace, Ev("lpush", "-", 0, "error"))
          /\ UNCHANGED <<dlq, outcome, pc>>
    /\ UNCHANGED <<settings, pool, page, queue, db, shutdown_flag, published,
                   locals>>

\* redis_client.lpush(settings.dlq_name, task_data); a Redis error leaves
\* process_task
LpushDlq ==
    /\ pc = "lpush_dlq"
    /\ \/ /\ dlq' = Lpush(dlq, DlqPayload)
          /\ trace' = Append(trace, Ev("lpush", "-", 0, "ok"))
          /\ outcome' = "Exhausted"
          /\ pc' = "loop"
       \/ /\ trace' = Append(trace, Ev("lpush", "-", 0, "error"))
          /\ outcome' = "Raised"
          /\ pc' = "except"
          /\ UNCHANGED dlq
    /\ UNCHANGED <<settings, pool, page, queue, db, shutdown_flag, published,
                   locals>>

Next ==
    \/ Publish
    \/ SignalHandler
    \/ LoopExit
    \/ BrpopTimeout
    \/ Brpop
    \/ BrpopRaises
    \/ LoopExcept
    \/ Parse
    \/ Scrape
    \/ StoreSuccess
    \/ NotifySuccess
    \/ StoreFailed
    \/ NotifyFailure
    \/ LpushDlq

Spec == Init /\ [][Next]_vars

\* The worker is one sequential thread: every call it makes returns or raises
\* (the fetch, the webhook and brpop have timeouts, the sleeps are finite), so
\* a step of the worker that stays possible is taken.
WorkerStep ==
    \/ LoopExit
    \/ Brpop
    \/ LoopExcept
    \/ Parse
    \/ Scrape
    \/ StoreSuccess
    \/ NotifySuccess
    \/ StoreFailed
    \/ NotifyFailure
    \/ LpushDlq

FairSpec == Spec /\ WF_vars(WorkerStep)


(***************************************************************************)
(* Several workers: consume_tasks and process_task of worker w, on the     *)
(* shared lists.  The calls of process_task are counted per job in         *)
(* effects; the documents and the sleeps are those of Spec and are left    *)
(* out here.                                                               *)
(***************************************************************************)
\* the state of the model of one worker
single == <<settings, queue, dlq, db, shutdown_flag, published, pc, locals,
            trace, outcome>>

\* the single worker of Spec, not started, on empty lists
SingleIdle ==
    /\ retry_backoff_base = 1
    /\ queue = <<>>
    /\ dlq = <<>>
    /\ db = [i \in Ids |-> NoDoc]
    /\ shutdown_flag = FALSE
    /\ published = 0
    /\ pc = "loop"
    /\ task_data = NoPayload
    /\ article_task = NoTask
    /\ attempt = 0
    /\ last_error = None
    /\ scraped_content = None
    /\ trace = <<>>
    /\ outcome = "none"

PoolInit ==
    /\ max_retries \in 1..MaxRetriesBound
    /\ SingleIdle
    /\ PoolIdle
    /\ PageIdle

\* worker w is inside process_task
PoolInTask(w) == pool_pc[w] \notin {"loop", "except", "closed", "crashed"}

\* a producer: client.lpush(settings.queue_name, task_data)
PoolPublish ==
    /\ pool_published < MaxPoolJobs
    /\ \E data \in PoolPayloads :
          pool_queue' = Lpush(pool_queue,
                              [seq |-> pool_published + 1, data |-> data])
    /\ pool_published' = pool_published + 1
    /\ UNCHANGED <<single, page, pool_dlq, pool_pc, pool_job, pool_attempt,
                   pool_flag, popped, effects>>

\* signal_handler of worker w's process
PoolSignalHandler(w) ==
    /\ ~pool_flag[w]
    /\ pool_pc[w] # "crashed"
    /\ pool_flag' = [pool_flag EXCEPT ![w] = TRUE]
    /\ UNCHANGED <<single, page, pool_queue, pool_dlq, pool_published, pool_pc,
                   pool_job, pool_attempt, popped, effects>>

\* the process of worker w is killed inside process_task
PoolCrash(w) ==
    /\ PoolInTask(w)
    /\ pool_pc' = [pool_pc EXCEPT ![w] = "crashed"]
    /\ UNCHANGED <<single, page, pool_queue, pool_dlq, pool_published, pool_job,
                   pool_attempt, pool_flag, popped, effects>>

\* while not shutdown_flag: false
PoolLoopExit(w) ==
    /\ pool_pc[w] = "loop"
    /\ pool_flag[w]
    /\ pool_pc' = [pool_pc EXCEPT ![w] = "closed"]
    /\ UNCHANGED <<single, page, pool_queue, pool_dlq, pool_published, pool_job,
                   pool_attempt, pool_flag, popped, effects>>

\* brpop timed out: result is None, continue
PoolBrpopTimeout(w) ==
    /\ pool_pc[w] = "loop"
    /\ ~pool_flag[w]
    /\ pool_queue = <<>>
    /\ UNCHANGED vars

\* brpop returned a payload to worker w
PoolBrpop(w) ==
    /\ pool_pc[w] = "loop"
    /\ ~pool_flag[w]
    /\ pool_queue # <<>>
    /\ pool_job' = [pool_job EXCEPT ![w] = BrpopValue(pool_queue)]
    /\ pool_queue' = BrpopRest(pool_queue)
    /\ popped' = Append(popped, [w |-> w, seq |-> BrpopValue(pool_queue).seq])
    /\ pool_pc' = [pool_pc EXCEPT ![w] = "parse"]
    /\ pool_attempt' = [pool_attempt EXCEPT ![w] = 0]
    /\ UNCHANGED <<single, page, pool_dlq, pool_published, pool_flag, effects>>

\* brpop raised: caught by except Exception
PoolBrpopRaises(w) ==
    /\ pool_pc[w] = "loop"
    /\ ~pool_flag[w]
    /\ pool_pc' = [pool_pc EXCEPT ![w] = "except"]
    /\ UNCHANGED <<single, page, pool_queue, pool_dlq, pool_published, pool_job,
                   pool_attempt, pool_flag, popped, effects>>

\* mutant: the handler puts the job back on the work list
PoolLoopExceptRequeues(w) ==
    /\ pool_pc[w] = "except"
    /\ pool_pc' = [pool_pc EXCEPT ![w] = "loop"]
    /\ pool_queue' = IF pool_job[w] = NoJob THEN pool_queue
                     ELSE Lpush(pool_queue, pool_job[w])
    /\ UNCHANGED <<single, page, pool_dlq, pool_published, pool_job,
                   pool_attempt, pool_flag, popped, effects>>

\* except Exception: log, time.sleep(1), back to the while test
PoolLoopExcept(w) ==
    /\ pool_pc[w] = "except"
    /\ pool_pc' = [pool_pc EXCEPT ![w] = "loop"]
    /\ UNCHANGED <<single, page, pool_queue, pool_dlq, pool_published, pool_job,
                   pool_attempt, pool_flag, popped, effects>>

\* json.loads, ArticleTask(**task_dict), attempt = 1
PoolParse(w) ==
    /\ pool_pc[w] = "parse"
    /\ IF JsonLoadsRaises(pool_job[w].data) \/ ValidationRaises(pool_job[w].data)
         THEN /\ pool_pc' = [pool_pc EXCEPT ![w] = "except"]
              /\ UNCHANGED pool_attempt
         ELSE /\ pool_attempt' = [pool_attempt EXCEPT ![w] = 1]
              /\ pool_pc' = [pool_pc EXCEPT ![w] =
                               IF WhileCond(1) THEN "scrape" ELSE "store_failed"]
    /\ UNCHANGED <<single, page, pool_queue, pool_dlq, pool_published, pool_job,
                   pool_flag, popped, effects>>

\* except Exception of the retry loop: attempt += 1, then the while test
PoolRetryExcept(w) ==
    /\ pool_attempt' = [pool_attempt EXCEPT ![w] = @ + 1]
    /\ pool_pc' = [pool_pc EXCEPT ![w] =
                     IF WhileCond(pool_attempt[w] + 1) THEN "scrape"
                     ELSE "store_failed"]

\* the calls counted for the job of worker w
StoreCalled(w) == [effects EXCEPT ![pool_job[w].seq].store = @ \cup {w}]
WebhookCalled(w) == [effects EXCEPT ![pool_job[w].seq].webhook = @ + 1]
LpushCalled(w) == [effects EXCEPT ![pool_job[w].seq].lpush = @ + 1]

\* scraper.scrape returns, or raises into the except
PoolScrape(w) ==
    /\ pool_pc[w] = "scrape"
    /\ \/ /\ pool_pc' = [pool_pc EXCEPT ![w] = "store_success"]
          /\ UNCHANGED pool_attempt
       \/ PoolRetryExcept(w)
    /\ UNCHANGED <<single, page, pool_queue, pool_dlq, pool_published, pool_job,
                   pool_flag, popped, effects>>

\* store_article(status="success") returns, or raises into the except
PoolStoreSuccess(w) ==
    /\ pool_pc[w] = "store_success"
    /\ effects' = StoreCalled(w)
    /\ \/ /\ pool_pc' = [pool_pc EXCEPT ![w] = "notify_success"]
          /\ UNCHANGED pool_attempt
       \/ PoolRetryExcept(w)
    /\ UNCHANGED <<single, page, pool_queue, pool_dlq, pool_published, pool_job,
                   pool_flag, popped>>

\* send_discord_webhook(success=True), then process_task returns
PoolNotifySuccess(w) ==
    /\ pool_pc[w] = "notify_success"
    /\ effects' = WebhookCalled(w)
    /\ pool_pc' = [pool_pc EXCEPT ![w] = "loop"]
    /\ UNCHANGED <<single, page, pool_queue, pool_dlq, pool_published, pool_job,
                   pool_attempt, pool_flag, popped>>

\* store_article(status="failed") returns, or raises out of process_task
PoolStoreFailed(w) ==
    /\ pool_pc[w] = "store_failed"
    /\ effects' = StoreCalled(w)
    /\ \E next \in {"notify_failure", "except"} :
          pool_pc' = [pool_pc EXCEPT ![w] = next]
    /\ UNCHANGED <<single, page, pool_queue, pool_dlq, pool_published, pool_job,
                   pool_attempt, pool_flag, popped>>

\* send_discord_webhook(success=False)
PoolNotifyFailure(w) ==
    /\ pool_pc[w] = "notify_failure"
    /\ effects' = WebhookCalled(w)
    /\ pool_pc' = [pool_pc EXCEPT ![w] = "lpush_dlq"]
    /\ UNCHANGED <<single, page, pool_queue, pool_dlq, pool_published, pool_job,
                   pool_attempt, pool_flag, popped>>

\* redis_client.lpush(settings.dlq_name, task_data) returns, or raises out of
\* process_task
PoolLpushDlq(w) ==
    /\ pool_pc[w] = "lpush_dlq"
    /\ effects' = LpushCalled(w)
    /\ \/ /\ pool_dlq' = Lpush(pool_dlq, pool_job[w])
          /\ pool_pc' = [pool_pc EXCEPT ![w] = "loop"]
       \/ /\ pool_pc' = [pool_pc EXCEPT ![w] = "except"]
          /\ UNCHANGED pool_dlq
    /\ UNCHANGED <<single, page, pool_queue, pool_published, pool_job,
                   pool_attempt, pool_flag, popped>>

PoolNext ==
    \/ PoolPublish
    \/ \E w \in Workers : PoolSignalHandler(w)
    \/ \E w \in Workers : PoolCrash(w)
    \/ \E w \in Workers : PoolLoopExit(w)
    \/ \E w \in Workers : PoolBrpopTimeout(w)
    \/ \E w \in Workers : PoolBrpop(w)
    \/ \E w \in Workers : PoolBrpopRaises(w)
    \/ \E w \in Workers : PoolLoopExcept(w)
    \/ \E w \in Workers : PoolParse(w)
    \/ \E w \in Workers : PoolScrape(w)
    \/ \E w \in Workers : PoolStoreSuccess(w)
    \/ \E w \in Workers : PoolNotifySuccess(w)
    \/ \E w \in Workers : PoolStoreFailed(w)
    \/ \E w \in Workers : PoolNotifyFailure(w)
    \/ \E w \in Workers : PoolLpushDlq(w)

PoolSpec == PoolInit /\ [][PoolNext]_vars

(***************************************************************************)
(* consumer/scraper.py: the extractors, as functions of the parsed         *)
(* document.                                                               *)
(***************************************************************************)
\* the characters of a text: whitespace and a letter
Chars == {" ", "a"}
Texts == UNION { [1..n -> Chars] : n \in 0..MaxTextLen }

\* Python's None where a text is expected
NoneText == <<"None">>
\* the literal "Untitled"
Untitled == <<"U", "n", "t", "i", "t", "l", "e", "d">>

\* what soup.find("meta", ...) returns
Metas ==
    {NoMeta}
    \cup {[present |-> TRUE, has_content |-> FALSE, content |-> <<>>]}
    \cup {[present |-> TRUE, has_content |-> TRUE, content |-> t] : t \in Texts}
\* what soup.find("h1") and soup.find("title") return
Tags == {NoTag} \cup {[present |-> TRUE, text |-> t] : t \in Texts}

\* the documents _extract_title tells apart: its four elements, nothing else
Soups ==
    { [EmptySoup EXCEPT !.og_title = q[1], !.twitter_title = q[2],
                        !.h1 = q[3], !.title_tag = q[4]] :
        q \in Metas \X Metas \X Tags \X Tags }

\* str.strip()
RECURSIVE LStrip(_)
LStrip(s) == IF s # <<>> /\ Head(s) = " " THEN LStrip(Tail(s)) ELSE s
RECURSIVE RStrip(_)
RStrip(s) ==
    IF s # <<>> /\ s[Len(s)] = " " THEN RStrip(SubSeq(s, 1, Len(s) - 1)) ELSE s
Strip(s) == RStrip(LStrip(s))

\* truth value of a str | None
Truthy(x) == x # NoneText /\ x # <<>>

\* tag.get("content")
TagGet(tag) == IF tag.has_content THEN tag.content ELSE NoneText

\* _get_clean_attr(tag, "content")
GetCleanAttr(tag) ==
    IF TagGet(tag) = NoneText THEN NoneText ELSE Strip(TagGet(tag))

\* tag.get_text(strip=True)
GetText(tag) == Strip(tag.text)

\* _extract_title(soup, article_id)
ExtractTitle(s) ==
    IF s.og_title.present /\ Truthy(GetCleanAttr(s.og_title))
      THEN GetCleanAttr(s.og_title)
    ELSE IF /\ s.twitter_title.present
            /\ Truthy(TagGet(s.twitter_title))
            /\ Truthy(GetCleanAttr(s.twitter_title))
      THEN GetCleanAttr(s.twitter_title)
    ELSE IF s.h1.present THEN GetText(s.h1)
    ELSE IF s.title_tag.present THEN GetText(s.title_tag)
    ELSE Untitled

TitleInit ==
    /\ soup \in Soups
    /\ title = NotExtracted
    /\ meta_description = NotExtracted
    /\ author = NotExtracted
    /\ published_date = NotExtracted
    /\ max_retries = 1
    /\ SingleIdle
    /\ PoolIdle

\* scrape calls self._extract_title(soup, article_id)
CallExtractTitle ==
    /\ ~title.returned
    /\ title' = [returned |-> TRUE, value |-> ExtractTitle(soup)]
    /\ UNCHANGED <<single, pool, soup, meta_description, author, published_date>>

TitleNext == CallExtractTitle

TitleSpec == TitleInit /\ [][TitleNext]_vars

(***************************************************************************)
(* The optional fields: description, author, published date.               *)
(***************************************************************************)
\* what soup.find("time", attrs={"datetime": True}) returns: a time element
\* that has a datetime attribute, with or without a content attribute
\* values of the datetime attribute: the extractor tests that the attribute
\* exists and never reads it, so empty, blank and one non-blank value do
DateTimes == {<<>>, <<" ">>, <<"a">>}

Times ==
    {NoTime}
    \cup {[present |-> TRUE, datetime |-> t, has_content |-> FALSE,
           content |-> <<>>] : t \in DateTimes}
    \cup {[present |-> TRUE, datetime |-> t, has_content |-> TRUE,
           content |-> u] : t \in DateTimes, u \in Texts}

\* the documents each extractor tells apart
DescSoups ==
    { [EmptySoup EXCEPT !.meta_desc = q[1], !.og_desc = q[2]] :
        q \in Metas \X Metas }
AuthorSoups ==
    { [EmptySoup EXCEPT !.meta_author = q[1], !.article_author = q[2],
                        !.author_tag = q[3]] :
        q \in Metas \X Metas \X Tags }
DateSoups ==
    { [EmptySoup EXCEPT !.published_time = q[1], !.time_tag = q[2],
                        !.date_tag = q[3]] :
        q \in Metas \X Times \X Tags }
\* the documents whose title comes from the h1 or the title element
HeadingSoups ==
    { [EmptySoup EXCEPT !.h1 = q[1], !.title_tag = q[2]] : q \in Tags \X Tags }

\* mutant: the value is returned without the test after trimming
MetaFoundUntrimmed(tag) == tag.present /\ Truthy(TagGet(tag))

\* if tag and tag.get("content"): value = _get_clean_attr(tag, "content");
\* if value: return value
MetaFound(tag) ==
    tag.present /\ Truthy(TagGet(tag)) /\ Truthy(GetCleanAttr(tag))

\* _extract_meta_description(soup, article_id)
ExtractMetaDescription(s) ==
    IF MetaFound(s.meta_desc) THEN GetCleanAttr(s.meta_desc)
    ELSE IF MetaFound(s.og_desc) THEN GetCleanAttr(s.og_desc)
    ELSE NoneText

\* _extract_author(soup, article_id); author_tag is the element the chain of
\* soup.find(class_="author") or ... or soup.find(rel="author") yields
ExtractAuthor(s) ==
    IF MetaFound(s.meta_author) THEN GetCleanAttr(s.meta_author)
    ELSE IF MetaFound(s.article_author) THEN GetCleanAttr(s.article_author)
    ELSE IF s.author_tag.present /\ Truthy(GetText(s.author_tag))
      THEN GetText(s.author_tag)
    ELSE NoneText

\* _extract_published_date(soup, article_id): the time element is read with
\* _get_clean_attr(time_tag, "content")
ExtractPublishedDate(s) ==
    IF MetaFound(s.published_time) THEN GetCleanAttr(s.published_time)
    ELSE IF s.time_tag.present /\ Truthy(GetCleanAttr(s.time_tag))
      THEN GetCleanAttr(s.time_tag)
    ELSE IF s.date_tag.present /\ Truthy(GetText(s.date_tag))
      THEN GetText(s.date_tag)
    ELSE NoneText

\* soup = BeautifulSoup(response.content, "lxml"): one of the documents the
\* extractors tell apart
ScrapeInit ==
    /\ \/ soup \in HeadingSoups
       \/ soup \in DescSoups
       \/ soup \in AuthorSoups
       \/ soup \in DateSoups
    /\ title = NotExtracted
    /\ meta_description = NotExtracted
    /\ author = NotExtracted
    /\ published_date = NotExtracted
    /\ max_retries = 1
    /\ SingleIdle
    /\ PoolIdle

\* scrape calls self._extract_meta_description(soup, article_id)
CallExtractMetaDescription ==
    /\ title.returned
    /\ ~meta_description.returned
    /\ meta_description' =
          [returned |-> TRUE, value |-> ExtractMetaDescription(soup)]
    /\ UNCHANGED <<single, pool, soup, title, author, published_date>>

\* scrape calls self._extract_author(soup, article_id)
CallExtractAuthor ==
    /\ meta_description.returned
    /\ ~author.returned
    /\ author' = [returned |-> TRUE, value |-> ExtractAuthor(soup)]
    /\ UNCHANGED <<single, pool, soup, title, meta_description, published_date>>

\* scrape calls self._extract_published_date(soup, article_id)
CallExtractPublishedDate ==
    /\ author.returned
    /\ ~published_date.returned
    /\ published_date' =
          [returned |-> TRUE, value |-> ExtractPublishedDate(soup)]
    /\ UNCHANGED <<single, pool, soup, title, meta_description, author>>

ScrapeNext ==
    \/ CallExtractTitle
    \/ CallExtractMetaDescription
    \/ CallExtractAuthor
    \/ CallExtractPublishedDate

ScrapeSpec == ScrapeInit /\ [][ScrapeNext]_vars

(***************************************************************************)
(* Reading the calls of the current delivery.                              *)
(***************************************************************************)
Calls(op) == { i \in DOMAIN trace : trace[i].op = op }
CallsWith(op, status) ==
    { i \in DOMAIN trace : trace[i].op = op /\ trace[i].status = status }

NumScrapes == Cardinality(Calls("scrape"))

\* store_article calls that wrote their document
Written == { i \in Calls("store") : trace[i].result = "written" }

\* process_task is over for the delivery in trace
Finished == pc \in {"loop", "except", "closed"} /\ task_data # NoPayload

\* every scrape of the delivery raised
AllScrapesFailed == \A i \in Calls("scrape") : trace[i].result # "ok"

\* a try block that raised: the scrape, or the store of the success record
IsAttemptFailure(e) ==
    \/ e.op = "scrape" /\ e.result # "ok"
    \/ e.op = "store" /\ e.status = "success" /\ e.result = "error"

\* no collaborator other than the fetcher failed: the store raised no error
\* other than a conflict, the dead-letter push went through
StoreAndPushWork ==
    \A i \in Calls("store") \cup Calls("lpush") : trace[i].result # "error"

\* the sleeps of the delivery, in order
SleepSeq == SelectSeq(trace, LAMBDA e : e.op = "sleep")

\* the payload does not parse as an ArticleTask
Malformed(data) == data.kind \in {"badjson", "badshape"}

\* the worker is inside process_task
InTask == pc \notin {"loop", "except", "closed"}

\* steps process_task can still make, at most
Rank ==
    CASE pc = "parse" -> 3 * max_retries + 4
      [] pc = "scrape" -> 3 * (max_retries - attempt) + 6
      [] pc = "store_success" -> 3 * (max_retries - attempt) + 5
      [] pc = "notify_success" -> 3 * (max_retries - attempt) + 4
      [] pc = "store_failed" -> 3
      [] pc = "notify_failure" -> 2
      [] pc = "lpush_dlq" -> 1
      [] OTHER -> 0

\* steps the worker can still make before the loop has exited, at most, once
\* the shutdown flag is set
ExitRank ==
    CASE InTask -> Rank + 2
      [] pc = "except" -> 2
      [] pc = "loop" -> 1
      [] OTHER -> 0

(***************************************************************************)
(* C1: the attempts value of every record written for a delivery equals    *)
(* the number of scraper.scrape calls made for that delivery, and lies in  *)
(* 1..max_retries; the document in the collection is that record.          *)
(***************************************************************************)
C1_AttemptsEqualFetches ==
    \A i \in Written :
        /\ trace[i].n = NumScrapes
        /\ 1 <= trace[i].n /\ trace[i].n <= max_retries
        /\ db[article_task.id].attempts = NumScrapes
        /\ db[article_task.id].status = trace[i].status

C1_Witness ==
    /\ Finished
    /\ \E i \in Written : trace[i].status = "failed" /\ trace[i].n = 3

(***************************************************************************)
(* C2 as stated: a written terminal record has attempts = max_retries if   *)
(* and only if its status is failed.                                       *)
(***************************************************************************)
C2_IffFailed ==
    \A i \in Written : (trace[i].n = max_retries) <=> (trace[i].status = "failed")

(***************************************************************************)
(* C2 amended: a failed record always has attempts = max_retries, a        *)
(* success record has 1 <= attempts <= max_retries, so a record with       *)
(* attempts < max_retries is a success; a success on the last permitted    *)
(* attempt has attempts = max_retries too.                                 *)
(***************************************************************************)
C2_FailedImpliesMax ==
    \A i \in Written :
        /\ trace[i].status = "failed" => trace[i].n = max_retries
        /\ trace[i].status = "success" => 1 <= trace[i].n /\ trace[i].n <= max_retries
        /\ trace[i].n < max_retries => trace[i].status = "success"

C2_Witness ==
    /\ outcome = "Success"
    /\ max_retries = 3
    /\ \E i \in Written : trace[i].status = "success" /\ trace[i].n = max_retries


(***************************************************************************)
(* C3: a delivery all of whose scrapes failed, with the store and the      *)
(* dead-letter push not failing, ends Exhausted after exactly max_retries  *)
(* scrapes with exactly one store_article call (status failed, attempts =  *)
(* max_retries, error_message = the last error), exactly one webhook call  *)
(* (a failure one, after the store), exactly one push of the payload to    *)
(* the dead-letter list, and no success record or success webhook; the     *)
(* record is the document of the job unless its url is held by another.    *)
(***************************************************************************)
C3_ExhaustedEffects ==
    (Finished /\ task_data.kind = "task" /\ AllScrapesFailed /\ StoreAndPushWork) =>
        /\ outcome = "Exhausted"
        /\ NumScrapes = max_retries
        /\ \A n \in 1..max_retries :
              \E i \in Calls("scrape") : trace[i].n = n
        /\ Cardinality(Calls("store")) = 1
        /\ Cardinality(Calls("webhook")) = 1
        /\ Cardinality(Calls("lpush")) = 1
        /\ \E i, j, k \in DOMAIN trace :
              /\ i < j /\ j < k /\ k = Len(trace)
              /\ trace[i].op = "store" /\ trace[i].status = "failed"
              /\ trace[i].n = max_retries
              /\ trace[j].op = "webhook" /\ trace[j].status = "failure"
              /\ trace[j].n = max_retries
              /\ trace[k].op = "lpush" /\ trace[k].result = "ok"
              /\ \A m \in Calls("scrape") : m < i
              /\ trace[i].result = "written" =>
                    db[article_task.id] =
                        [url |-> article_task.url, status |-> "failed",
                         attempts |-> max_retries,
                         error_message |-> trace[i - 1].result,
                         title |-> None]
        /\ dlq # <<>> /\ dlq[1] = task_data

C3_Witness ==
    /\ Finished /\ AllScrapesFailed /\ StoreAndPushWork
    /\ max_retries = 3
    /\ NumScrapes = 3
    /\ db[article_task.id].status = "failed"
    /\ Len(dlq) = 1

(***************************************************************************)
(* C4: when attempt k is the first whose try block does not raise (its     *)
(* scrape returns and the store of the success record raises nothing),     *)
(* process_task ends in Success with exactly k scrapes, exactly one        *)
(* webhook call (a success one with attempts = k), the success record      *)
(* with attempts = k as the only completed store call, no failure webhook, *)
(* no failed record and no dead-letter push; the record is the document of *)
(* the job unless its url is held by another.                              *)
(***************************************************************************)
C4_SuccessEffects ==
    \A i \in CallsWith("store", "success") :
        (trace[i].result # "error") =>
            LET k == trace[i].n IN
            /\ i > 1 /\ trace[i - 1] = Ev("scrape", "-", k, "ok")
            /\ NumScrapes = k
            /\ \A m \in Calls("scrape") : m < i
            /\ \A m \in Calls("store") : m # i => IsAttemptFailure(trace[m])
            /\ CallsWith("store", "failed") = {}
            /\ CallsWith("webhook", "failure") = {}
            /\ Calls("lpush") = {}
            /\ Len(trace) <= i + 1
            /\ pc \in {"notify_success", "loop", "except", "closed"}
            /\ Finished =>
                  /\ outcome = "Success"
                  /\ Len(trace) = i + 1
                  /\ trace[i + 1].op = "webhook" /\ trace[i + 1].status = "success"
                  /\ trace[i + 1].n = k
                  /\ Cardinality(Calls("webhook")) = 1
            /\ trace[i].result = "written" =>
                  db[article_task.id] =
                      [url |-> article_task.url, status |-> "success",
                       attempts |-> k, error_message |-> None,
                       title |-> scraped_content]

C4_Witness ==
    /\ outcome = "Success"
    /\ NumScrapes = 2
    /\ \E i \in Written : trace[i].status = "success" /\ trace[i].n = 2
    /\ CallsWith("webhook", "success") # {}
    /\ dlq = <<>>

(***************************************************************************)
(* C5: in every delivery send_discord_webhook is invoked at most once and  *)
(* the dead-letter push is made at most once, and a delivery that ended    *)
(* in Success or Exhausted invoked send_discord_webhook exactly once,      *)
(* whatever the scrapes, the store and the webhook did.                    *)
(***************************************************************************)
C5_OneNotification ==
    /\ Cardinality(Calls("webhook")) <= 1
    /\ Cardinality(Calls("lpush")) <= 1
    /\ outcome \in {"Success", "Exhausted"} =>
          /\ Cardinality(Calls("webhook")) = 1
          /\ outcome = "Success" => Calls("lpush") = {}

C5_Witness ==
    /\ outcome = "Exhausted"
    /\ \E i \in Calls("webhook") : trace[i].result = "failed"
    /\ \E i \in Calls("store") : trace[i].result = "error"
    /\ Cardinality(Calls("lpush")) = 1

(***************************************************************************)
(* C6: every try block that raises in attempt n < max_retries is followed  *)
(* at once by one sleep of retry_backoff_base * 2^(n-1); one that raises   *)
(* in attempt n = max_retries is followed by no sleep; a sleep follows     *)
(* nothing else, so none follows a successful attempt, and the sleeps of   *)
(* an exhausted job are base*2^0, ..., base*2^(max_retries-2).             *)
(***************************************************************************)
C6_Backoff ==
    /\ \A i \in DOMAIN trace :
          IsAttemptFailure(trace[i]) =>
              IF trace[i].n < max_retries
                THEN /\ i + 1 \in DOMAIN trace
                     /\ trace[i + 1] =
                           Ev("sleep", "-",
                              retry_backoff_base * Pow2(trace[i].n - 1), "-")
                ELSE i + 1 \in DOMAIN trace => trace[i + 1].op # "sleep"
    /\ \A j \in Calls("sleep") : j > 1 /\ IsAttemptFailure(trace[j - 1])
    /\ Len(SleepSeq) <= max_retries - 1
    /\ \A k \in DOMAIN SleepSeq :
          SleepSeq[k].n = retry_backoff_base * Pow2(k - 1)
    /\ outcome = "Exhausted" => Len(SleepSeq) = max_retries - 1

C6_Witness ==
    /\ outcome = "Exhausted"
    /\ retry_backoff_base = 3
    /\ Len(SleepSeq) = 2
    /\ SleepSeq[1].n = 3 /\ SleepSeq[2].n = 6


(***************************************************************************)
(* C7: process_task on a well-formed job makes at most max_retries scrapes *)
(* and always ends: inside it the worker always has a next step, and every *)
(* step strictly decreases Rank, a natural number.  It ends in exactly one *)
(* of Success and Exhausted unless the store of the failed record or the   *)
(* dead-letter push raised, and a failing scrape never makes it raise: the *)
(* only calls after which it raises are those two.                         *)
(***************************************************************************)
C7_Terminates ==
    /\ [](NumScrapes <= max_retries)
    /\ [](InTask => (Rank > 0 /\ ENABLED WorkerStep))
    /\ [][InTask => (Rank' < Rank \/ (pc' = pc /\ attempt' = attempt))]_vars
    /\ []((Finished /\ task_data.kind = "task") =>
            /\ outcome \in {"Success", "Exhausted", "Raised"}
            /\ outcome = "Raised" =>
                  /\ trace[Len(trace)].result = "error"
                  /\ \/ trace[Len(trace)].op = "lpush"
                     \/ trace[Len(trace)].op = "store"
                        /\ trace[Len(trace)].status = "failed"
            /\ StoreAndPushWork => outcome \in {"Success", "Exhausted"})

C7_Witness ==
    /\ Finished
    /\ outcome = "Exhausted"
    /\ NumScrapes = max_retries
    /\ max_retries = 3
    /\ AllScrapesFailed

(***************************************************************************)
(* C8: the dead-letter list changes only by process_task pushing, as its   *)
(* new head, the very payload brpop returned for the job (the bytes, not a *)
(* new serialization of the parsed task), once per exhausted job.          *)
(***************************************************************************)
C8_DlqPayloadVerbatim ==
    /\ [][(pc = "loop" /\ pc' = "parse") => task_data' = queue[Len(queue)]]_vars
    /\ [][pc \notin {"loop", "except", "closed"} => task_data' = task_data]_vars
    /\ [][dlq' # dlq =>
            /\ pc = "lpush_dlq"
            /\ dlq' = <<task_data>> \o dlq
            /\ outcome' = "Exhausted"]_vars
    /\ [](Cardinality(Calls("lpush")) <= 1)
    /\ [](outcome = "Exhausted" =>
            /\ dlq # <<>> /\ dlq[1] = task_data
            /\ Cardinality(Calls("lpush")) = 1)

C8_Witness ==
    /\ outcome = "Exhausted"
    /\ task_data.form = "spaced"
    /\ dlq = <<task_data>>
    /\ task_data # ModelDumpJson(article_task)

(***************************************************************************)
(* C9 as stated: an error of the store other than a conflict, raised while *)
(* the success record is persisted, leaves process_task: nothing follows   *)
(* it in the delivery (no scrape, no sleep, no failed record, no webhook,  *)
(* no dead-letter push) and the worker is in the loop's handler.           *)
(***************************************************************************)
C9_StoreErrorPropagates ==
    \A i \in CallsWith("store", "success") :
        trace[i].result = "error" =>
            /\ i = Len(trace)
            /\ pc \in {"except", "loop", "closed"}

(***************************************************************************)
(* C10: a payload that is not JSON or fails ArticleTask validation is      *)
(* dropped: for it no call is made (no scrape, store, webhook or           *)
(* dead-letter push), the collection and the dead-letter list stay as they *)
(* are, and the loop goes on: its handler can always step, and only to the *)
(* top of the loop, which ends only on shutdown and otherwise can pop the  *)
(* next payload.                                                           *)
(***************************************************************************)
C10_MalformedDropped ==
    /\ []((Malformed(task_data) /\ pc # "parse") =>
            /\ trace = <<>>
            /\ outcome = "Raised"
            /\ pc \in {"except", "loop", "closed"})
    /\ [][(Malformed(task_data) /\ task_data' = task_data) =>
            (db' = db /\ dlq' = dlq /\ trace' = <<>>)]_vars
    /\ [][pc = "except" => pc' \in {"except", "loop"}]_vars
    /\ [][pc' = "closed" => shutdown_flag]_vars
    /\ [](pc = "except" => ENABLED LoopExcept)
    /\ []((pc = "loop" /\ ~shutdown_flag /\ queue # <<>>) => ENABLED Brpop)

C10_Witness ==
    /\ Malformed(task_data)
    /\ pc = "loop"
    /\ outcome = "Raised"
    /\ ~shutdown_flag
    /\ queue # <<>>
    /\ db = [i \in Ids |-> NoDoc]

(***************************************************************************)
(* C11: a shutdown signal that arrives while a job is inside process_task  *)
(* does not interrupt it.  The signal changes the flag and nothing else;   *)
(* with the flag set the worker inside process_task still has a next step, *)
(* leaves process_task only with an outcome, and a job whose scrapes all   *)
(* fail still makes all max_retries attempts and all max_retries - 1       *)
(* sleeps.  The flag is read only at the top of the loop: the loop is left *)
(* only from there.                                                        *)
(***************************************************************************)
C11_ShutdownDoesNotInterrupt ==
    /\ [][shutdown_flag' # shutdown_flag =>
            /\ shutdown_flag'
            /\ pc' = pc /\ locals' = locals /\ trace' = trace
            /\ outcome' = outcome /\ db' = db /\ dlq' = dlq /\ queue' = queue]_vars
    /\ []((InTask /\ shutdown_flag) => (Rank > 0 /\ ENABLED WorkerStep))
    /\ [][(InTask /\ shutdown_flag) =>
            \/ InTask' /\ outcome' = "none"
            \/ ~InTask' /\ outcome' \in {"Success", "Exhausted", "Raised"}]_vars
    /\ [][pc' = "closed" => (pc \in {"loop", "closed"} /\ shutdown_flag)]_vars
    /\ []((shutdown_flag /\ Finished /\ task_data.kind = "task"
             /\ AllScrapesFailed /\ StoreAndPushWork) =>
            /\ outcome = "Exhausted"
            /\ NumScrapes = max_retries
            /\ Len(SleepSeq) = max_retries - 1)

C11_Witness ==
    /\ shutdown_flag
    /\ pc = "lpush_dlq"
    /\ max_retries = 3
    /\ NumScrapes = 3
    /\ Len(SleepSeq) = 2

C13_NotificationFailureIgnored ==
    /\ [][(pc \in {"notify_success", "notify_failure"}) =>
            /\ db' = db /\ dlq' = dlq
            /\ attempt' = attempt /\ last_error' = last_error
            /\ pc' # pc => queue' = queue
            /\ pc = "notify_success" =>
                  (pc' = pc \/ (pc' = "loop" /\ outcome' = "Success"))
            /\ pc = "notify_failure" =>
                  (pc' = pc \/ (pc' = "lpush_dlq" /\ outcome' = "none"))]_vars
    /\ [](\A i \in Calls("webhook") :
            trace[i].result = "failed" =>
               /\ trace[i].n = trace[i - 1].n
               /\ trace[i].status = "success" =>
                     /\ i = Len(trace)
                     /\ outcome = "Success"
                     /\ ~InTask
               /\ trace[i].status = "failure" =>
                     /\ outcome # "Success"
                     /\ i = Len(trace) => (pc = "lpush_dlq" /\ ENABLED LpushDlq)
                     /\ i < Len(trace) =>
                           /\ i + 1 = Len(trace)
                           /\ trace[i + 1].op = "lpush"
                           /\ trace[i + 1].result = "ok" =>
                                 (outcome = "Exhausted" /\ dlq # <<>>
                                    /\ dlq[1] = task_data))

C13_Witness ==
    /\ outcome = "Exhausted"
    /\ trace[Len(trace) - 1].op = "webhook"
    /\ trace[Len(trace) - 1].result = "failed"
    /\ dlq = <<task_data>>
    /\ db[article_task.id].status = "failed"

(***************************************************************************)
(* C14: the collection is keyed by the job id, so it holds at most one     *)
(* document per id, and a write replaces the whole document: a write       *)
(* changes the document of the job's id only, and every stored document is *)
(* either a success record with a title and no error_message or a failed   *)
(* record with an error_message and no title, whatever was stored under    *)
(* the id before.                                                          *)
(***************************************************************************)
C14_WriteReplaces ==
    /\ [][db' # db =>
            /\ pc \in {"store_success", "store_failed"}
            /\ \A j \in Ids \ {article_task.id} : db'[j] = db[j]
            /\ db'[article_task.id] =
                  IF pc = "store_success"
                    THEN ArticleDoc(article_task, scraped_content, "success",
                                    attempt, None)
                    ELSE ArticleDoc(article_task, None, "failed", attempt - 1,
                                    last_error)]_vars
    /\ [](\A i \in Ids :
            db[i] # NoDoc =>
               \/ /\ db[i].status = "success"
                  /\ db[i].title # None
                  /\ db[i].error_message = None
               \/ /\ db[i].status = "failed"
                  /\ db[i].title = None
                  /\ db[i].error_message # None)

\* a failed record of an earlier delivery of a1 (its payload is in the
\* dead-letter list) has been replaced by the success record of this one
C14_Witness ==
    /\ dlq # <<>>
    /\ dlq[1].id = "a1"
    /\ article_task.id = "a1"
    /\ outcome = "Success"
    /\ Written # {}
    /\ db["a2"] = NoDoc
    /\ db["a1"].status = "success"
    /\ db["a1"].error_message = None

(***************************************************************************)
(* C15: an exception that leaves process_task (the store of the failed     *)
(* record, the dead-letter push, a malformed payload) or the pop itself is *)
(* caught by the loop: process_task is left to the handler exactly when it *)
(* raised, a raising pop goes to the handler and changes nothing, the      *)
(* handler can always step and only back to the top of the loop, leaving   *)
(* the lists and the collection as they are, and the loop ends only at its *)
(* top with the shutdown flag set; without the flag the next queued job    *)
(* can be popped there, and process_task entered with it.                  *)
(***************************************************************************)
C15_LoopSurvivesExceptions ==
    /\ [][(InTask /\ ~InTask') =>
            /\ pc' \in {"loop", "except"}
            /\ (pc' = "except") <=> (outcome' = "Raised")]_vars
    /\ [][(pc = "loop" /\ pc' = "except") =>
            /\ ~shutdown_flag
            /\ queue' = queue /\ dlq' = dlq /\ db' = db
            /\ locals' = locals /\ outcome' = outcome]_vars
    /\ [][(pc = "except" /\ pc' # pc) =>
            /\ pc' = "loop"
            /\ queue' = queue /\ dlq' = dlq /\ db' = db
            /\ shutdown_flag' = shutdown_flag]_vars
    /\ [][(pc' = "closed" /\ pc # "closed") => (pc = "loop" /\ shutdown_flag)]_vars
    /\ [](pc = "except" => ENABLED LoopExcept)
    /\ []((pc = "loop" /\ ~shutdown_flag /\ queue # <<>>) => ENABLED Brpop)
    /\ [][(pc = "loop" /\ pc' = "parse") => task_data' = queue[Len(queue)]]_vars
    /\ [](pc = "parse" => ENABLED Parse)

C15_Witness ==
    /\ pc = "loop"
    /\ ~shutdown_flag
    /\ queue # <<>>
    /\ outcome = "Raised"
    /\ trace # <<>>
    /\ trace[Len(trace)].op = "store"
    /\ trace[Len(trace)].status = "failed"
    /\ trace[Len(trace)].result = "error"

(***************************************************************************)
(* C16: the dead-letter push is attempted once per delivery, after the     *)
(* failed record and the failure webhook, with no retry and no backoff.  A *)
(* push that fails is the last call of the delivery: it leaves the         *)
(* dead-letter list and the collection as they are, process_task raises to *)
(* the loop's handler, and the failed record written and the webhook sent  *)
(* before it stay as they are.                                             *)
(***************************************************************************)
C16_DlqPushOnce ==
    /\ [][(pc = "lpush_dlq" /\ pc' # pc) =>
            /\ db' = db
            /\ Len(trace') = Len(trace) + 1
            /\ SubSeq(trace', 1, Len(trace)) = trace
            /\ trace'[Len(trace')].op = "lpush"
            /\ trace'[Len(trace')].result = "error" =>
                  (dlq' = dlq /\ pc' = "except" /\ outcome' = "Raised")]_vars
    /\ [](Cardinality(Calls("lpush")) <= 1)
    /\ [](\A i \in Calls("lpush") :
            /\ i = Len(trace)
            /\ ~InTask
            /\ i >= 3
            /\ trace[i - 1].op = "webhook" /\ trace[i - 1].status = "failure"
            /\ trace[i - 2].op = "store" /\ trace[i - 2].status = "failed"
            /\ trace[i].result = "error" =>
                  /\ outcome = "Raised"
                  /\ trace[i - 2].result = "written" =>
                        /\ db[article_task.id].status = "failed"
                        /\ db[article_task.id].attempts = trace[i - 2].n
                        /\ db[article_task.id].error_message = last_error)

C16_Witness ==
    /\ pc = "loop"
    /\ outcome = "Raised"
    /\ trace # <<>>
    /\ trace[Len(trace)].op = "lpush"
    /\ trace[Len(trace)].result = "error"
    /\ dlq = <<>>
    /\ db[article_task.id].status = "failed"

(***************************************************************************)
(* Reading the pool: where a job is and who popped it.                     *)
(***************************************************************************)
\* the pops that delivered job n
PopsOf(n) == { i \in DOMAIN popped : popped[i].seq = n }
\* the positions of job n in a list
PlacesIn(list, n) == { i \in DOMAIN list : list[i].seq = n }
\* the jobs enqueued so far
Enqueued == 1..pool_published

(***************************************************************************)
(* C17: with several workers popping from the same work list, under every  *)
(* interleaving, an enqueued payload is either still in the work list,     *)
(* once, or was delivered by exactly one pop to one worker; two workers    *)
(* never hold the same job, and for every job all calls are made by the    *)
(* worker that popped it: at most one worker calls store_article for it,   *)
(* at most one webhook is sent and at most one dead-letter push is made.   *)
(***************************************************************************)
C17_DeliveredToOneWorker ==
    /\ \A n \in Enqueued :
          /\ Cardinality(PopsOf(n)) + Cardinality(PlacesIn(pool_queue, n)) = 1
          /\ Cardinality(effects[n].store) <= 1
          /\ effects[n].store \subseteq { popped[i].w : i \in PopsOf(n) }
          /\ effects[n].webhook <= 1
          /\ effects[n].lpush <= 1
          /\ (effects[n] # NoEffects) => PopsOf(n) # {}
    /\ \A v, w \in Workers :
          (v # w /\ pool_job[v] # NoJob) => pool_job[v].seq # pool_job[w].seq

\* both jobs were delivered, one to each worker, and both are finished
C17_Witness ==
    /\ Len(popped) = 2
    /\ popped[1].w # popped[2].w
    /\ effects[1].webhook = 1 /\ effects[1].lpush = 1
    /\ effects[2].webhook = 1 /\ effects[2].lpush = 0
    /\ \A w \in Workers : pool_pc[w] = "loop"

(***************************************************************************)
(* C18: delivery is at-most-once.  The work list changes only by a         *)
(* producer adding a new job at its head or by a pop removing its tail: no *)
(* worker pushes to it.  A job that was popped is never in the work list   *)
(* again, however its processing went: returned, raised to the handler, or *)
(* the worker was killed inside process_task, and then the job is in       *)
(* neither the work list nor the dead-letter list, and stays lost.         *)
(***************************************************************************)
C18_AtMostOnce ==
    /\ [][pool_queue' # pool_queue =>
            \/ /\ pool_published' = pool_published + 1
               /\ Len(pool_queue') = Len(pool_queue) + 1
               /\ pool_queue'[1].seq = pool_published'
               /\ SubSeq(pool_queue', 2, Len(pool_queue')) = pool_queue
               /\ popped' = popped
            \/ /\ pool_queue # <<>>
               /\ pool_queue' = SubSeq(pool_queue, 1, Len(pool_queue) - 1)
               /\ Len(popped') = Len(popped) + 1
               /\ popped'[Len(popped')].seq = pool_queue[Len(pool_queue)].seq]_vars
    /\ [](\A i \in DOMAIN popped : PlacesIn(pool_queue, popped[i].seq) = {})
    /\ [](\A w \in Workers :
            pool_pc[w] = "crashed" =>
               /\ pool_job[w] # NoJob
               /\ PlacesIn(pool_queue, pool_job[w].seq) = {}
               /\ PlacesIn(pool_dlq, pool_job[w].seq) = {})
    /\ [][\A w \in Workers :
            pool_pc[w] = "crashed" =>
               (pool_pc'[w] = "crashed" /\ pool_job'[w] = pool_job[w])]_vars

\* w1 was killed with job 1, which is in no list; w2 is idle
C18_Witness ==
    /\ pool_pc["w1"] = "crashed"
    /\ pool_job["w1"].seq = 1
    /\ pool_published = MaxPoolJobs
    /\ pool_queue = <<>>
    /\ pool_dlq = <<>>
    /\ pool_pc["w2"] = "loop"
    /\ Len(popped) = MaxPoolJobs

(***************************************************************************)
(* C19: jobs are popped in the order they were published, also when        *)
(* publishing and popping interleave: the producer pushes at the head and  *)
(* the pop takes the tail, so the work list holds the jobs not yet popped, *)
(* newest first, and the i-th pop returns the i-th job published; with a   *)
(* single consumer that is the order in which it processes them.           *)
(***************************************************************************)
C19_Fifo ==
    /\ \A i \in DOMAIN popped : popped[i].seq = i
    /\ Len(pool_queue) = pool_published - Len(popped)
    /\ \A i \in DOMAIN pool_queue : pool_queue[i].seq = pool_published - i + 1

\* one worker popped both jobs, the other none
C19_Witness ==
    /\ Len(popped) = 2
    /\ popped[1] = [w |-> "w1", seq |-> 1]
    /\ popped[2] = [w |-> "w1", seq |-> 2]
    /\ pool_job["w2"] = NoJob
    /\ pool_job["w1"].data.kind = "task"

(***************************************************************************)
(* Reading the document as the title chain describes it.                   *)
(***************************************************************************)
\* the candidates of the title chain, in order: present or not, and their
\* trimmed text
TitleCandidates(s) ==
    << [present |-> s.og_title.present /\ s.og_title.has_content,
        text |-> Strip(s.og_title.content)],
       [present |-> s.twitter_title.present /\ s.twitter_title.has_content,
        text |-> Strip(s.twitter_title.content)],
       [present |-> s.h1.present, text |-> Strip(s.h1.text)],
       [present |-> s.title_tag.present, text |-> Strip(s.title_tag.text)] >>

\* the candidates that are present with non-empty trimmed text
TitleFound(s) ==
    { i \in 1..4 : TitleCandidates(s)[i].present /\ TitleCandidates(s)[i].text # <<>> }

\* the smallest element of a non-empty set of numbers
Min(S) == CHOOSE i \in S : \A j \in S : i <= j

(***************************************************************************)
(* C20 as stated: the resolved title is the trimmed text of the earliest   *)
(* candidate, in the order og:title, twitter:title, h1, title tag, that is *)
(* present with non-empty trimmed text, and it is "Untitled" when no       *)
(* title-bearing element is present.                                       *)
(***************************************************************************)
C20_TitleChain ==
    title.returned =>
       /\ TitleFound(soup) # {} =>
             title.value = TitleCandidates(soup)[Min(TitleFound(soup))].text
       /\ (\A i \in 1..4 : ~TitleCandidates(soup)[i].present) =>
             title.value = Untitled

(***************************************************************************)
(* C21 as stated, for the title: a candidate that is present but empty     *)
(* after trimming counts as not found.  The resolved title is never the    *)
(* empty text; when no candidate has non-empty trimmed text it is          *)
(* "Untitled"; an h1 with empty or whitespace-only text falls through to   *)
(* the title tag.                                                          *)
(***************************************************************************)
C21_EmptyCandidateSkipped ==
    title.returned =>
       /\ title.value # <<>>
       /\ TitleFound(soup) = {} => title.value = Untitled
       /\ (TitleFound(soup) = {4} /\ soup.h1.present) =>
             title.value = Strip(soup.title_tag.text)

(***************************************************************************)
(* C22 as stated: the published date is the article:published_time meta    *)
(* content when that is present and not empty; without that meta element,  *)
(* a time element with a non-empty datetime attribute resolves it to the   *)
(* datetime value; without either, it is the text of the date-pattern      *)
(* element when that is not empty, and absent otherwise.                   *)
(***************************************************************************)
C22_PublishedDateChain ==
    published_date.returned =>
       /\ MetaFound(soup.published_time) =>
             published_date.value = Strip(soup.published_time.content)
       /\ (~soup.published_time.present /\ soup.time_tag.present
             /\ Strip(soup.time_tag.datetime) # <<>>) =>
             published_date.value = Strip(soup.time_tag.datetime)
       /\ (~soup.published_time.present /\ ~soup.time_tag.present) =>
             published_date.value =
                IF soup.date_tag.present /\ Strip(soup.date_tag.text) # <<>>
                  THEN Strip(soup.date_tag.text) ELSE NoneText

\* every value an element of the list carries is empty after trimming
AllEmpty(tags) ==
    \A i \in DOMAIN tags :
        \A f \in DOMAIN tags[i] \ {"present", "has_content"} :
            Strip(tags[i][f]) = <<>>

\* an optional field is absent or a trimmed, non-empty text, and absent
\* when the elements it is read from are missing or carry only whitespace
OptionalOk(result, tags) ==
    result.returned =>
       /\ result.value # <<>>
       /\ result.value = NoneText
             \/ \A i \in DOMAIN result.value : result.value[i] \in Chars
       /\ result.value # NoneText => Strip(result.value) = result.value
       /\ AllEmpty(tags) => result.value = NoneText

(***************************************************************************)
(* C23: description, author and published date are never the empty text:  *)
(* each is absent (None) or a trimmed non-empty text, and it is absent     *)
(* when no source element is present and when the elements present carry   *)
(* only empty or whitespace-only values.  No extractor raises: whatever    *)
(* the document, each call returns when its turn comes.                    *)
(***************************************************************************)
C23_OptionalNeverEmpty ==
    /\ OptionalOk(meta_description, <<soup.meta_desc, soup.og_desc>>)
    /\ OptionalOk(author,
                  <<soup.meta_author, soup.article_author, soup.author_tag>>)
    /\ OptionalOk(published_date,
                  <<soup.published_time, soup.time_tag, soup.date_tag>>)
    /\ (title.returned /\ ~meta_description.returned) =>
          ENABLED CallExtractMetaDescription
    /\ (meta_description.returned /\ ~author.returned) =>
          ENABLED CallExtractAuthor
    /\ (author.returned /\ ~published_date.returned) =>
          ENABLED CallExtractPublishedDate

\* whitespace-only description metas, all three fields extracted
C23_Witness ==
    /\ published_date.returned
    /\ soup.meta_desc.has_content /\ soup.meta_desc.content = <<" ">>
    /\ soup.og_desc.has_content /\ soup.og_desc.content = <<" ", " ">>
    /\ meta_description.value = NoneText
    /\ author.value = NoneText
    /\ published_date.value = NoneText


\* store_article calls of the delivery that met a DuplicateKeyError
Conflicts(status) ==
    { i \in CallsWith("store", status) : trace[i].result = "duplicate" }

(***************************************************************************)
(* C24: a store_article call that meets a DuplicateKeyError returns as a   *)
(* call that wrote.  On the success path the success webhook is the next   *)
(* call and the last one, with the attempts of the store: no sleep and no  *)
(* further scrape follow, process_task returns with Success.  On the       *)
(* Exhausted path the failure webhook is the next call and the dead-letter *)
(* push the one after it.  The conflict itself writes nothing.             *)
(***************************************************************************)
C24_ConflictContinues ==
    /\ \A i \in Conflicts("success") :
          /\ i = Len(trace) => (pc = "notify_success" /\ ENABLED NotifySuccess)
          /\ i < Len(trace) =>
                /\ Len(trace) = i + 1
                /\ trace[i + 1].op = "webhook"
                /\ trace[i + 1].status = "success"
                /\ trace[i + 1].n = trace[i].n
                /\ outcome = "Success"
                /\ ~InTask
          /\ Cardinality(Calls("sleep")) = trace[i].n - 1
          /\ NumScrapes = trace[i].n
          /\ CallsWith("store", "failed") = {}
    /\ \A i \in Conflicts("failed") :
          /\ i = Len(trace) => (pc = "notify_failure" /\ ENABLED NotifyFailure)
          /\ i < Len(trace) =>
                /\ trace[i + 1].op = "webhook"
                /\ trace[i + 1].status = "failure"
                /\ i + 1 = Len(trace) => (pc = "lpush_dlq" /\ ENABLED LpushDlq)
                /\ i + 1 < Len(trace) =>
                      /\ Len(trace) = i + 2
                      /\ trace[i + 2].op = "lpush"
                      /\ trace[i + 2].result = "ok" =>
                            (outcome = "Exhausted" /\ dlq # <<>> /\ dlq[1] = task_data)
    /\ \A i \in Conflicts("success") \cup Conflicts("failed") :
          /\ DuplicateKey(article_task)
          /\ i \notin Written

\* the success record met a conflict on the second attempt, the success
\* webhook was sent and process_task returned Success
C24_Witness ==
    /\ outcome = "Success"
    /\ pc = "loop"
    /\ \E i \in Conflicts("success") :
          /\ trace[i].n = 2
          /\ trace[Len(trace)].op = "webhook"
          /\ trace[Len(trace)].status = "success"


\* the document of the delivered job is a record of the given status
StoredAs(status) ==
    /\ db[article_task.id] # NoDoc
    /\ db[article_task.id].status = status

(***************************************************************************)
(* C25 as stated: once the success webhook of a delivery has been sent the *)
(* collection holds a success document under the job's id, and once the    *)
(* payload of a delivery has been pushed to the dead-letter list it holds  *)
(* a failed document under the job's id, conflicts on url included.        *)
(***************************************************************************)
C25_NotifiedImpliesStored ==
    /\ CallsWith("webhook", "success") # {} => StoredAs("success")
    /\ (\E k \in Calls("lpush") : trace[k].result = "ok") => StoredAs("failed")

\* the store call before call j wrote the record of this status: the
\* document of the job is that record.  It met a conflict: the delivery
\* wrote nothing, the url is held by another _id and not by the job's.
StoredUnlessConflict(i, status) ==
    /\ i >= 1
    /\ trace[i].op = "store"
    /\ trace[i].status = status
    /\ trace[i].result \in {"written", "duplicate"}
    /\ trace[i].result = "written" =>
          /\ StoredAs(status)
          /\ db[article_task.id].url = article_task.url
          /\ db[article_task.id].attempts = trace[i].n
    /\ trace[i].result = "duplicate" =>
          /\ Written = {}
          /\ DuplicateKey(article_task)
          /\ db[article_task.id] # NoDoc =>
                db[article_task.id].url # article_task.url

(***************************************************************************)
(* C25 amended: the success webhook of a delivery directly follows the     *)
(* store of the success record, the dead-letter push follows the store of  *)
(* the failed record and the failure webhook.  When that store wrote, the  *)
(* collection holds the record under the job's id, with the job's url and  *)
(* the attempts of the delivery.  When it met a conflict on url with       *)
(* another id the webhook is sent and the payload pushed all the same, and *)
(* the delivery has written no document: the job's id has none, or an      *)
(* older one with another url.                                             *)
(***************************************************************************)
C25_NotifiedImpliesStoredUnlessConflict ==
    /\ \A j \in CallsWith("webhook", "success") :
          StoredUnlessConflict(j - 1, "success")
    /\ \A k \in Calls("lpush") :
          trace[k].result = "ok" => StoredUnlessConflict(k - 2, "failed")

\* success webhook sent after a conflict: no document under the job's id
C25_Witness ==
    /\ outcome = "Success"
    /\ CallsWith("webhook", "success") # {}
    /\ Conflicts("success") # {}
    /\ db[article_task.id] = NoDoc

\* calls of the delivery that belong to the Success result: a success
\* record handed to the collection without an error, a success webhook
SuccessEffects ==
    { i \in DOMAIN trace :
        \/ trace[i].op = "store" /\ trace[i].status = "success"
              /\ trace[i].result # "error"
        \/ trace[i].op = "webhook" /\ trace[i].status = "success" }

\* calls of the delivery that belong to the Exhausted result: a store of
\* the failed record, a failure webhook, a dead-letter push
ExhaustedEffects ==
    { i \in DOMAIN trace :
        \/ trace[i].op = "store" /\ trace[i].status = "failed"
        \/ trace[i].op = "webhook" /\ trace[i].status = "failure"
        \/ trace[i].op = "lpush" }

(***************************************************************************)
(* C26: one delivery never has both a Success effect (a success record     *)
(* stored, a success webhook) and an Exhausted effect (a failed record     *)
(* stored or tried, a failure webhook, a dead-letter push), whatever the   *)
(* scrapes, the stores and the webhooks do; a delivery that returned       *)
(* Success has no Exhausted effect, one that returned Exhausted or raised  *)
(* has no Success effect.                                                  *)
(***************************************************************************)
C26_SuccessExcludesExhausted ==
    /\ SuccessEffects = {} \/ ExhaustedEffects = {}
    /\ outcome = "Success" => (ExhaustedEffects = {} /\ SuccessEffects # {})
    /\ outcome \in {"Exhausted", "Raised"} => SuccessEffects = {}
    /\ pc \in {"store_failed", "notify_failure", "lpush_dlq"} => SuccessEffects = {}
    /\ pc = "notify_success" => ExhaustedEffects = {}

\* an Exhausted delivery one of whose attempts scraped the page and failed
\* in the store of the success record, the webhook not delivered
C26_Witness ==
    /\ outcome = "Exhausted"
    /\ \E i \in CallsWith("store", "success") : trace[i].result = "error"
    /\ \E i \in CallsWith("webhook", "failure") : trace[i].result = "failed"
    /\ Calls("lpush") # {}


(***************************************************************************)
(* C27: on the Exhausted path the calls come in the order store of the     *)
(* failed record, failure webhook, dead-letter push: a failure webhook     *)
(* directly follows a store of the failed record that returned, a push     *)
(* directly follows the failure webhook.  A store of the failed record     *)
(* that raises is the last call of the delivery: process_task is left to   *)
(* the loop's handler with no failure webhook and no push, the step        *)
(* changes neither list nor the collection, and the handler only goes back *)
(* to the top of the loop, so the payload is in neither list and the       *)
(* delivery wrote no record.                                               *)
(***************************************************************************)
C27_ExhaustedOrder ==
    /\ [](\A j \in CallsWith("webhook", "failure") :
            /\ j > 1
            /\ trace[j - 1].op = "store"
            /\ trace[j - 1].status = "failed"
            /\ trace[j - 1].result # "error")
    /\ [](\A k \in Calls("lpush") :
            /\ k > 2
            /\ trace[k - 1].op = "webhook"
            /\ trace[k - 1].status = "failure"
            /\ k = Len(trace))
    /\ [](\A i \in CallsWith("store", "failed") :
            /\ Cardinality(CallsWith("store", "failed")) = 1
            /\ trace[i].result = "error" =>
                  /\ i = Len(trace)
                  /\ ~InTask
                  /\ outcome = "Raised"
                  /\ CallsWith("webhook", "failure") = {}
                  /\ Calls("lpush") = {}
                  /\ Written = {})
    /\ [][(pc = "store_failed" /\ pc' = "except") =>
            /\ trace'[Len(trace')].result = "error"
            /\ queue' = queue /\ dlq' = dlq /\ db' = db]_vars
    /\ [][(pc = "store_failed" /\ pc' # pc) =>
            pc' \in {"notify_failure", "except"}]_vars
    /\ [][(pc = "notify_failure" /\ pc' # pc) => pc' = "lpush_dlq"]_vars
    /\ [][(pc = "except" /\ pc' # pc) =>
            /\ pc' = "loop"
            /\ queue' = queue /\ dlq' = dlq /\ db' = db]_vars

\* the store of the failed record raised on a job with an empty work list,
\* an empty dead-letter list and an empty collection: the job is nowhere
C27_Witness ==
    /\ pc = "loop"
    /\ outcome = "Raised"
    /\ trace # <<>>
    /\ trace[Len(trace)].op = "store"
    /\ trace[Len(trace)].status = "failed"
    /\ trace[Len(trace)].result = "error"
    /\ queue = <<>>
    /\ dlq = <<>>
    /\ db = [i \in Ids |-> NoDoc]

====
